---- MODULE Spec2Model ----
(***************************************************************************)
(* File_Organizer: the batch pipeline of file_organizer/main.py.           *)
(*                                                                         *)
(* FileOrganizer.run lists the input directory, drives every file through  *)
(* the stage chain of process_file on one dict (text_data), aggregates the *)
(* run statistics and finally asks ZipBuilder for one archive (Spec).      *)
(* SpecStages has the stage objects called on one record by a client, with *)
(* a wider choice of labels, extensions and texts than a whole run has.    *)
(*                                                                         *)
(* Python strings are sequences of one-character strings; a dict is a      *)
(* function whose DOMAIN is the set of keys it holds, so "key in d" is     *)
(* "key \in DOMAIN d" and d.update(e) is e @@ d.                            *)
(***************************************************************************)
EXTENDS Integers, Sequences, FiniteSets, TLC

\* ------------------------------------------------------------------ bounds
\* Largest number of direct entries of the input directory.
MaxEntries == 3

\* ------------------------------------------------------- string primitives
UpperLetters == <<"A","B","C","D","E","F","G","H","I","J","K","L","M",
                  "N","O","P","Q","R","S","T","U","V","W","X","Y","Z">>

LowerLetters == <<"a","b","c","d","e","f","g","h","i","j","k","l","m",
                  "n","o","p","q","r","s","t","u","v","w","x","y","z">>

DigitChars == <<"0","1","2","3","4","5","6","7","8","9">>

Range(s) == {s[i] : i \in DOMAIN s}

\* the character classes [A-Z], [a-z0-9_] and [a-z0-9_.-]
UpperSet == Range(UpperLetters)

WordSet == Range(LowerLetters) \cup Range(DigitChars) \cup {"_"}

FileWordSet == WordSet \cup {".", "-"}

\* str.lower() on the upper-case letters
LowerOf == [c \in UpperSet |->
               LowerLetters[CHOOSE i \in DOMAIN UpperLetters : UpperLetters[i] = c]]

\* str.lower() on one character
LowerChar(c) == IF c \in UpperSet THEN LowerOf[c] ELSE c

\* str.lower()
Lower(s) == [i \in DOMAIN s |-> LowerChar(s[i])]

\* characters str.strip() removes
Whitespace == {" ", "\t", "\n", "\r", "\f"}

RECURSIVE LStrip(_, _)
LStrip(s, chars) ==
    IF s # <<>> /\ Head(s) \in chars THEN LStrip(Tail(s), chars) ELSE s

RECURSIVE RStrip(_, _)
RStrip(s, chars) ==
    IF s # <<>> /\ s[Len(s)] \in chars
    THEN RStrip(SubSeq(s, 1, Len(s) - 1), chars)
    ELSE s

\* str.strip(chars)
Strip(s, chars) == RStrip(LStrip(s, chars), chars)

\* str.endswith(suffix)
EndsWith(s, suffix) ==
    /\ Len(suffix) <= Len(s)
    /\ SubSeq(s, Len(s) - Len(suffix) + 1, Len(s)) = suffix

\* s[:n]
Prefix(s, n) == SubSeq(s, 1, IF n < Len(s) THEN n ELSE Len(s))

\* str.split(sep) for a one-character separator
RECURSIVE Split(_, _)
Split(s, sep) ==
    IF \E i \in DOMAIN s : s[i] = sep
    THEN LET i == CHOOSE k \in DOMAIN s :
                     s[k] = sep /\ \A j \in 1..(k - 1) : s[j] # sep
         IN  <<SubSeq(s, 1, i - 1)>> \o Split(SubSeq(s, i + 1, Len(s)), sep)
    ELSE <<s>>

\* sep.join(parts)
RECURSIVE Join(_, _)
Join(parts, sep) ==
    IF parts = <<>> THEN <<>>
    ELSE IF Len(parts) = 1 THEN parts[1]
    ELSE parts[1] \o <<sep>> \o Join(Tail(parts), sep)

\* re.sub('_+', '_', s) and re.sub('_{2,}', '_', s): runs of '_' become one '_'
RECURSIVE CollapseUnderscores(_)
CollapseUnderscores(s) ==
    IF Len(s) < 2 THEN s
    ELSE IF s[1] = "_" /\ s[2] = "_" THEN CollapseUnderscores(Tail(s))
    ELSE <<s[1]>> \o CollapseUnderscores(Tail(s))

\* str(n) for n >= 0
RECURSIVE IntToStr(_)
IntToStr(n) ==
    IF n < 10 THEN <<DigitChars[n + 1]>>
    ELSE IntToStr(n \div 10) \o <<DigitChars[(n % 10) + 1]>>

\* position of the dot that starts pathlib's suffix of a final component, or 0
SuffixDot(name) ==
    LET dots == {i \in DOMAIN name : name[i] = "."}
        last == IF dots = {} THEN 0
                ELSE CHOOSE i \in dots : \A j \in dots : j <= i
    IN  IF 1 < last /\ last < Len(name) THEN last ELSE 0

\* final component of a path string: pathlib's PurePath.name
PathName(path) ==
    LET parts == SelectSeq(Split(path, "/"), LAMBDA p : p # <<>>)
    IN  IF parts = <<>> THEN <<>> ELSE parts[Len(parts)]

\* pathlib's PurePath.suffix
PathSuffix(path) ==
    LET name == PathName(path)
    IN  IF SuffixDot(name) = 0 THEN <<>>
        ELSE SubSeq(name, SuffixDot(name), Len(name))

\* pathlib's PurePath.stem
PathStem(path) ==
    LET name == PathName(path)
    IN  IF SuffixDot(name) = 0 THEN name
        ELSE SubSeq(name, 1, SuffixDot(name) - 1)

\* dict.get(key, default)
Get(d, key, default) == IF key \in DOMAIN d THEN d[key] ELSE default

\* dict.update(e)
Update(d, e) == e @@ d

\* the empty dict
EmptyDict == <<>>

\* Python's None where a key holds it
None == "None"

\* Python's None where a key otherwise holds a string
NoneStr == <<"None">>

\* ------------------------------------------------------------ string values
Ext_pdf  == <<".","p","d","f">>
Ext_png  == <<".","p","n","g">>
Ext_jpg  == <<".","j","p","g">>
Ext_jpeg == <<".","j","p","e","g">>
Ext_docx == <<".","d","o","c","x">>
Ext_doc  == <<".","d","o","c">>
Ext_ppt  == <<".","p","p","t">>
Ext_pptx == <<".","p","p","t","x">>
Ext_txt  == <<".","t","x","t">>

S_other            == <<"o","t","h","e","r">>
S_Other            == <<"O","t","h","e","r">>
S_Business         == <<"B","u","s","i","n","e","s","s">>
S_unnamed_document == <<"u","n","n","a","m","e","d","_","d","o","c","u","m","e","n","t">>
S_underscore       == <<"_">>

\* ------------------------------------------------- PreprocessingAgent (plan)
\* self.extraction_plans.get(ext)
extraction_plans(ext) ==
    CASE ext = Ext_pdf  -> "pdf_text_then_ocr_if_needed"
      [] ext = Ext_png  -> "ocr"
      [] ext = Ext_jpg  -> "ocr"
      [] ext = Ext_jpeg -> "ocr"
      [] ext = Ext_docx -> "docx"
      [] ext = Ext_doc  -> "docx"
      [] ext = Ext_ppt  -> "ppt"
      [] ext = Ext_pptx -> "ppt"
      [] OTHER          -> None

\* PreprocessingAgent.get_extraction_plan: both returns hold the same two keys
\* and neither holds 'success'
get_extraction_plan(file_path) ==
    LET ext  == Lower(PathSuffix(file_path))
        plan == extraction_plans(ext)
    IN  IF plan = None
        THEN ("file_path" :> file_path) @@ ("extraction_plan" :> None)
        ELSE ("file_path" :> file_path) @@ ("extraction_plan" :> plan)

\* ------------------------------------------------ FileTypeDetector (detect)
\* mimetypes.guess_type, by extension
guess_type(ext) ==
    CASE ext = Ext_pdf  -> "application/pdf"
      [] ext = Ext_png  -> "image/png"
      [] ext = Ext_jpg  -> "image/jpeg"
      [] ext = Ext_jpeg -> "image/jpeg"
      [] ext = Ext_docx -> "application/vnd.openxmlformats-officedocument.wordprocessingml.document"
      [] ext = Ext_doc  -> "application/msword"
      [] ext = Ext_ppt  -> "application/vnd.ms-powerpoint"
      [] ext = Ext_pptx -> "application/vnd.openxmlformats-officedocument.presentationml.presentation"
      [] ext = Ext_txt  -> "text/plain"
      [] OTHER          -> None

\* FileTypeDetector.detect; `present` is the set of names in the input directory
detect(file_path, present) ==
    IF file_path \notin present
    THEN ("file_path" :> file_path) @@ ("file_type" :> NoneStr) @@ ("mime_type" :> None)
    ELSE LET suffix == PathSuffix(file_path)
             ext    == IF suffix # <<>> THEN Tail(Lower(suffix)) ELSE NoneStr
         IN  ("file_path" :> file_path) @@ ("file_type" :> ext)
                 @@ ("mime_type" :> guess_type(Lower(suffix)))

\* ------------------------------------------------- ExtractorFactory, extractors
\* ExtractorFactory.get_extractor: extractors.get(extraction_plan)
get_extractor(extraction_plan) ==
    CASE extraction_plan = "pdf_text_then_ocr_if_needed" -> "PDFExtractor"
      [] extraction_plan = "ocr"                         -> "ImageExtractor"
      [] extraction_plan = "docx"                        -> "DocxExtractor"
      [] extraction_plan = "ppt"                         -> "PPTExtractor"
      [] OTHER                                           -> None

\* Extracted text is kept by its class: "" (empty), "blank" (white space only),
\* "text" (raw text), "clean-text" (normalised text).
StripContent(content) == IF content = "blank" THEN "" ELSE content

\* What a backend library does when an extractor calls it.
BackendFails == {"ImportError", "Exception"}
Backend == [kind : {"text"}, content : {"", "text"}]
               \cup [kind : BackendFails]

\* the two failure returns shared by every extractor
ExtractFailure(file_path, error_msg) ==
    ("content" :> "") @@ ("success" :> FALSE) @@ ("error" :> error_msg)
        @@ ("file_path" :> file_path)

\* DocxExtractor.extract that treats a missing python-docx as an empty document
DocxImportSkipped(file_path, backend) ==
    CASE backend.kind = "text" ->
             ("content" :> backend.content) @@ ("success" :> TRUE)
                 @@ ("file_path" :> file_path)
      [] backend.kind = "ImportError" ->
             ("content" :> "") @@ ("success" :> TRUE) @@ ("file_path" :> file_path)
      [] OTHER ->
             ExtractFailure(file_path, "Error extracting text from {file_path}: {e}")

\* DocxExtractor.extract
DocxExtractor_extract(file_path, backend) ==
    CASE backend.kind = "text" ->
             ("content" :> backend.content) @@ ("success" :> TRUE)
                 @@ ("file_path" :> file_path)
      [] backend.kind = "ImportError" ->
             ExtractFailure(file_path, "Install python-docx: pip install python-docx")
      [] OTHER ->
             ExtractFailure(file_path, "Error extracting text from {file_path}: {e}")

\* PPTExtractor.extract: every shape text is stripped before it is joined
PPTExtractor_extract(file_path, backend) ==
    CASE backend.kind = "text" ->
             ("content" :> StripContent(backend.content)) @@ ("success" :> TRUE)
                 @@ ("file_path" :> file_path)
      [] backend.kind = "ImportError" ->
             ExtractFailure(file_path, "Install python-pptx: pip install python-pptx")
      [] OTHER ->
             ExtractFailure(file_path, "Error extracting text from PowerPoint {file_path}: {e}")

\* ImageExtractor.extract
ImageExtractor_extract(file_path, backend) ==
    CASE backend.kind = "text" ->
             ("content" :> backend.content) @@ ("success" :> TRUE)
                 @@ ("file_path" :> file_path)
      [] backend.kind = "ImportError" ->
             ExtractFailure(file_path, "Install pytesseract and Pillow: pip install pytesseract pillow")
      [] OTHER ->
             ExtractFailure(file_path, "Error extracting text from image {file_path}: {e}")

\* PDFExtractor._extract_with_ocr
PDFExtractor_extract_with_ocr(file_path, ocr) ==
    CASE ocr.kind = "text" ->
             ("content" :> StripContent(ocr.content)) @@ ("success" :> TRUE)
                 @@ ("file_path" :> file_path) @@ ("ocr_used" :> TRUE)
      [] ocr.kind = "ImportError" ->
             ExtractFailure(file_path, "Install pytesseract, Pillow, and pdf2image: pip install pytesseract pillow pdf2image")
      [] OTHER ->
             ExtractFailure(file_path, "Error during OCR processing of {file_path}: {e}")

\* PDFExtractor.extract that tests the text layer before trimming it
PDFExtractNoTrim(file_path, backend, ocr) ==
    CASE backend.kind = "text" ->
             IF backend.content = ""
             THEN PDFExtractor_extract_with_ocr(file_path, ocr)
             ELSE ("content" :> StripContent(backend.content)) @@ ("success" :> TRUE)
                      @@ ("file_path" :> file_path)
      [] backend.kind = "ImportError" ->
             ExtractFailure(file_path, "Install PyMuPDF: pip install PyMuPDF")
      [] OTHER ->
             ExtractFailure(file_path, "Error extracting text from PDF {file_path}: {e}")

\* PDFExtractor.extract
PDFExtractor_extract(file_path, backend, ocr) ==
    CASE backend.kind = "text" ->
             IF StripContent(backend.content) = ""
             THEN PDFExtractor_extract_with_ocr(file_path, ocr)
             ELSE ("content" :> StripContent(backend.content)) @@ ("success" :> TRUE)
                      @@ ("file_path" :> file_path)
      [] backend.kind = "ImportError" ->
             ExtractFailure(file_path, "Install PyMuPDF: pip install PyMuPDF")
      [] OTHER ->
             ExtractFailure(file_path, "Error extracting text from PDF {file_path}: {e}")

\* extractor.extract(path), dispatched on the registry's answer
extract(extractor, file_path, backend, ocr) ==
    CASE extractor = "PDFExtractor"   -> PDFExtractor_extract(file_path, backend, ocr)
      [] extractor = "ImageExtractor" -> ImageExtractor_extract(file_path, backend)
      [] extractor = "DocxExtractor"  -> DocxExtractor_extract(file_path, backend)
      [] OTHER                        -> PPTExtractor_extract(file_path, backend)

\* -------------------------------------------------- TextCleaner, MetadataGenerator
\* What the four cleaning passes and the final strip can leave of a content.
CleanedContents(content) ==
    IF content = "blank" THEN {""} ELSE {"clean-text", ""}

\* TextCleaner.clean; `cleaned` is the text the passes leave
TextCleaner_clean(text_data, cleaned) ==
    IF ~Get(text_data, "success", FALSE) THEN text_data
    ELSE IF "content" \notin DOMAIN text_data
         THEN Update(text_data, ("error" :> "Text cleaning failed: 'content'")
                                    @@ ("success" :> FALSE))
    ELSE IF text_data["content"] = "" THEN text_data
    ELSE Update(text_data, "content" :> cleaned)

\* ------------------------------------------- TextCleaner on the text itself
\* The passes of TextCleaner.clean on a content given character by character.
\* Positions are 1-based; a match [i, q) starts at i and ends before q.

\* number of characters from position i on that are in `class`
RECURSIVE RunIn(_, _, _)
RunIn(s, i, class) ==
    IF i > Len(s) \/ s[i] \notin class THEN 0 ELSE 1 + RunIn(s, i + 1, class)

\* number of characters from position i on that are not in `class`
RECURSIVE RunNotIn(_, _, _)
RunNotIn(s, i, class) ==
    IF i > Len(s) \/ s[i] \in class THEN 0 ELSE 1 + RunNotIn(s, i + 1, class)

\* '^' under re.MULTILINE
AtLineStart(s, i) == i = 1 \/ s[i - 1] = "\n"

\* '$' under re.MULTILINE, tested before position q
AtLineEnd(s, q) == q = Len(s) + 1 \/ s[q] = "\n"

\* the largest q in a..b at which '$' matches, or 0: where a greedy '\s*$'
\* ends after backtracking
LastLineEnd(s, a, b) ==
    LET ends == {q \in a..b : AtLineEnd(s, q)}
    IN  IF ends = {} THEN 0 ELSE CHOOSE q \in ends : \A r \in ends : r <= q

\* whether `word` (lower case) is at position i, ignoring case
WordAt(s, i, word) ==
    /\ i + Len(word) - 1 <= Len(s)
    /\ \A k \in DOMAIN word : LowerChar(s[i + k - 1]) = word[k]

\* r'Page\s+\d+(?:\s+of\s+\d+)?' with re.IGNORECASE: end of the match at i, or 0
PageNumberEnd(s, i) ==
    LET ws1 == RunIn(s, i + 4, Whitespace)
        d1  == RunIn(s, i + 4 + ws1, Range(DigitChars))
        e1  == i + 4 + ws1 + d1
        ws2 == RunIn(s, e1, Whitespace)
        ws3 == RunIn(s, e1 + ws2 + 2, Whitespace)
        d2  == RunIn(s, e1 + ws2 + 2 + ws3, Range(DigitChars))
    IN  IF ~(WordAt(s, i, <<"p","a","g","e">>) /\ ws1 >= 1 /\ d1 >= 1) THEN 0
        ELSE IF ws2 >= 1 /\ WordAt(s, e1 + ws2, <<"o","f">>) /\ ws3 >= 1 /\ d2 >= 1
        THEN e1 + ws2 + 2 + ws3 + d2
        ELSE e1

\* r'^\s*\d+\s*$' with re.MULTILINE: end of the match at i, or 0
NumberLineEnd(s, i) ==
    LET ws == RunIn(s, i, Whitespace)
        d  == RunIn(s, i + ws, Range(DigitChars))
        e  == i + ws + d
    IN  IF ~AtLineStart(s, i) \/ d = 0 THEN 0
        ELSE LastLineEnd(s, e, e + RunIn(s, e, Whitespace))

\* r'^\s*[A-Z0-9\s]+\s*$' with re.MULTILINE: end of the match at i, or 0
CapsLineEnd(s, i) ==
    LET run == RunIn(s, i, UpperSet \cup Range(DigitChars) \cup Whitespace)
    IN  IF ~AtLineStart(s, i) \/ run = 0 THEN 0
        ELSE LastLineEnd(s, i + 1, i + run)

\* r'^\s*\S{1,3}\s*$' with re.MULTILINE: end of the match at i, or 0
ShortLineEnd(s, i) ==
    LET ws == RunIn(s, i, Whitespace)
        n  == RunNotIn(s, i + ws, Whitespace)
        e  == i + ws + n
    IN  IF ~AtLineStart(s, i) \/ n = 0 \/ n > 3 THEN 0
        ELSE LastLineEnd(s, e, e + RunIn(s, e, Whitespace))

\* r'\s+', replaced by one blank: end of the match at i, or 0
WhitespaceEnd(s, i) ==
    IF RunIn(s, i, Whitespace) = 0 THEN 0 ELSE i + RunIn(s, i, Whitespace)

\* r'\n{3,}', replaced by two newlines: end of the match at i, or 0
NewlinesEnd(s, i) ==
    IF RunIn(s, i, {"\n"}) < 3 THEN 0 ELSE i + RunIn(s, i, {"\n"})

\* end of the match of `pattern` at position i, or 0 when there is none
MatchEnd(pattern, s, i) ==
    CASE pattern = "page_number" -> PageNumberEnd(s, i)
      [] pattern = "number_line" -> NumberLineEnd(s, i)
      [] pattern = "caps_line"   -> CapsLineEnd(s, i)
      [] pattern = "short_line"  -> ShortLineEnd(s, i)
      [] pattern = "whitespace"  -> WhitespaceEnd(s, i)
      [] OTHER                   -> NewlinesEnd(s, i)

\* re.sub(pattern, repl, s) from position i on: the leftmost matches, none
\* overlapping, are replaced
RECURSIVE ReSub(_, _, _, _)
ReSub(pattern, repl, s, i) ==
    IF i > Len(s) THEN <<>>
    ELSE IF MatchEnd(pattern, s, i) = 0
    THEN <<s[i]>> \o ReSub(pattern, repl, s, i + 1)
    ELSE repl \o ReSub(pattern, repl, s, MatchEnd(pattern, s, i))

\* TextCleaner._remove_page_numbers
remove_page_numbers(text) ==
    ReSub("number_line", <<>>, ReSub("page_number", <<>>, text, 1), 1)

\* TextCleaner._remove_headers_footers
remove_headers_footers(text) ==
    ReSub("short_line", <<>>, ReSub("caps_line", <<>>, text, 1), 1)

\* TextCleaner._normalize_whitespace
normalize_whitespace(text) == ReSub("whitespace", <<" ">>, text, 1)

\* TextCleaner._remove_repeated_newlines
remove_repeated_newlines(text) == ReSub("newlines", <<"\n", "\n">>, text, 1)

\* TextCleaner.clean, lines 27-31: the four passes and text.strip()
clean_passes(text) ==
    Strip(remove_repeated_newlines(normalize_whitespace(
              remove_headers_footers(remove_page_numbers(text)))), Whitespace)

\* TextCleaner.clean on a record whose content is given character by character
TextCleaner_clean_text(text_data) ==
    IF ~Get(text_data, "success", FALSE) THEN text_data
    ELSE IF "content" \notin DOMAIN text_data
         THEN Update(text_data, ("error" :> "Text cleaning failed: 'content'")
                                    @@ ("success" :> FALSE))
    ELSE IF text_data["content"] = <<>> THEN text_data
    ELSE Update(text_data, "content" :> clean_passes(text_data["content"]))

\* MetadataGenerator.generate: the statistics are those of the content
MetadataGenerator_generate(text_data) ==
    IF ~Get(text_data, "success", FALSE) THEN text_data
    ELSE Update(text_data,
                "metadata" :> [statistics_of   |-> Get(text_data, "content", ""),
                               ocr_confidence |-> Get(text_data, "ocr_confidence", None)])

\* --------------------------------------- MetadataGenerator on the text itself
\* str.count(c)
Count(text, c) == Cardinality({i \in DOMAIN text : text[i] = c})

\* the characters str.splitlines() breaks a line at
LineBreaks == {"\n", "\r", "\f"}

\* MetadataGenerator._count_pages
count_pages(text) ==
    LET page_breaks == Count(text, "\f")
        estimate    == IF page_breaks > 0 THEN page_breaks
                       ELSE (Count(text, "\n") \div 50) + 1
    IN  IF estimate > 1 THEN estimate ELSE 1

\* position i holds the first character other than white space of its line,
\* the lines being those of text.splitlines()
StartsNonBlankLine(text, i) ==
    LET breaks == {k \in 1..(i - 1) : text[k] \in LineBreaks}
        start  == IF breaks = {} THEN 0
                  ELSE CHOOSE k \in breaks : \A j \in breaks : j <= k
    IN  /\ text[i] \notin Whitespace
        /\ \A j \in (start + 1)..(i - 1) : text[j] \in Whitespace

\* MetadataGenerator._count_lines: the lines with line.strip() not empty
count_lines(text) == Cardinality({i \in DOMAIN text : StartsNonBlankLine(text, i)})

\* position i starts a run of [a-zA-Z0-9_]
StartsWord(text, i) ==
    /\ LowerChar(text[i]) \in WordSet
    /\ i = 1 \/ LowerChar(text[i - 1]) \notin WordSet

\* MetadataGenerator._count_words: len(re.findall(r'\w+', text))
count_words(text) == Cardinality({i \in DOMAIN text : StartsWord(text, i)})

\* MetadataGenerator.generate on a record whose content is given character by
\* character; has_tables and file_size are left out of the metadata
MetadataGenerator_generate_text(text_data) ==
    IF ~Get(text_data, "success", FALSE) THEN text_data
    ELSE LET text == Get(text_data, "content", <<>>)
         IN  Update(text_data,
                 "metadata" :> [page_count     |-> count_pages(text),
                                word_count     |-> count_words(text),
                                line_count     |-> count_lines(text),
                                ocr_confidence |-> Get(text_data, "ocr_confidence", None)])

\* --------------------------------------------------------- ClassificationAgent
\* self.categories
categories == {<<"A","c","a","d","e","m","i","c","s">>, <<"B","u","s","i","n","e","s","s">>, <<"F","i","n","a","n","c","e">>, <<"L","e","g","a","l">>, <<"M","e","d","i","c","a","l">>,
               <<"T","e","c","h","n","i","c","a","l">>, <<"C","r","e","a","t","i","v","e">>, <<"P","e","r","s","o","n","a","l">>, <<"O","t","h","e","r">>}

\* the substitute result of lines 102 and 106
DefaultClassification ==
    ("category" :> S_Other) @@ ("confidence" :> [numeric |-> TRUE, percent |-> 50])

\* ClassificationAgent.classify; `reply` is what self.chain.invoke does:
\* it raises, or returns a dict, a string (valid JSON or not) or another value
ClassificationAgent_classify(text_data, reply) ==
    IF ~Get(text_data, "success", FALSE) THEN text_data
    ELSE LET fallback == Update(text_data, ("category" :> S_Other)
                                    @@ ("confidence" :> [numeric |-> TRUE, percent |-> 50]))
             parsed   == CASE reply.kind = "dict"     -> reply.value
                           [] reply.kind = "json_str" -> reply.value
                           [] OTHER                   -> DefaultClassification
             category   == Get(parsed, "category", S_Other)
             confidence == Get(parsed, "confidence", [numeric |-> TRUE, percent |-> 50])
         IN  IF reply.kind = "raise" THEN fallback
             ELSE IF ~confidence.numeric THEN fallback
             ELSE Update(text_data, ("category" :> category)
                                        @@ ("confidence" :> confidence))

\* --------------------------------------------------------------- GroupingAgent
\* GroupingAgent.__init__: max_depth
max_depth == 3

\* GroupingAgent._clean_path_component
GroupingAgent_clean_path_component(component) ==
    IF component = <<>> THEN <<>>
    ELSE LET lowered  == Lower(component)
             spaced   == [i \in DOMAIN lowered |->
                             IF lowered[i] = " " THEN "_" ELSE lowered[i]]
             filtered == SelectSeq(spaced, LAMBDA c : c \in WordSet)
         IN  Strip(CollapseUnderscores(filtered), {"_"})

\* GroupingAgent._clean_path
GroupingAgent_clean_path(path, category) ==
    IF path = <<>> THEN GroupingAgent_clean_path_component(category)
    ELSE LET cleaned    == [i \in DOMAIN Split(path, "/") |->
                               GroupingAgent_clean_path_component(Split(path, "/")[i])]
             components == SelectSeq(cleaned, LAMBDA c : c # <<>>)
             clamped    == Prefix(components, max_depth)
             anchored   == IF clamped # <<>> /\ Lower(clamped[1]) # Lower(category)
                           THEN <<GroupingAgent_clean_path_component(category)>> \o clamped
                           ELSE clamped
             clean_path == Join(anchored, "/")
         IN  IF clean_path = <<>>
             THEN GroupingAgent_clean_path_component(category)
             ELSE clean_path

\* GroupingAgent.suggest_group_path; `reply` is what self.chain.invoke does
GroupingAgent_suggest_group_path(text_data, reply) ==
    IF ~Get(text_data, "success", FALSE) THEN text_data
    ELSE LET classification == Get(text_data, "classification", EmptyDict)
             category       == Lower(Get(classification, "category", S_other))
         IN  IF reply.kind = "raise"
             THEN Update(text_data, "group_path" :>
                      GroupingAgent_clean_path_component(
                          Get(classification, "category", S_other)))
             ELSE Update(text_data, "group_path" :>
                      GroupingAgent_clean_path(Strip(reply.value, Whitespace), category))

\* --------------------------------------------------------------- RenamingAgent
\* RenamingAgent.__init__: max_filename_length
max_filename_length == 50

\* RenamingAgent._clean_filename
RenamingAgent_clean_filename(filename, extension) ==
    IF filename = <<>> THEN S_unnamed_document \o extension
    ELSE LET lowered   == Lower(PathStem(filename))
             replaced  == [i \in DOMAIN lowered |->
                              IF lowered[i] \in FileWordSet THEN lowered[i] ELSE "_"]
             trimmed   == Strip(CollapseUnderscores(replaced), {"_", ".", "-"})
             name      == IF trimmed = <<>> THEN S_unnamed_document ELSE trimmed
             max_name_length == max_filename_length - Len(extension)
             cut       == IF Len(name) > max_name_length
                          THEN RStrip(Prefix(name, max_name_length), {"_"})
                          ELSE name
         IN  IF EndsWith(Lower(cut), Lower(extension)) THEN cut ELSE cut \o extension

\* RenamingAgent.generate_filename; `reply` is what self.chain.invoke does
RenamingAgent_generate_filename(text_data, reply) ==
    IF ~Get(text_data, "success", FALSE) THEN text_data
    ELSE LET file_path == Get(text_data, "file_path", <<"d","o","c","u","m","e","n","t">>)
             extension == Lower(PathSuffix(file_path))
         IN  IF reply.kind = "raise"
             THEN Update(text_data, "new_name" :>
                      RenamingAgent_clean_filename(PathName(file_path), extension))
             ELSE LET clean_name == RenamingAgent_clean_filename(
                                        Strip(reply.value, Whitespace), extension)
                  IN  Update(text_data, "new_name" :>
                          Prefix(clean_name, max_filename_length))

\* ----------------------------------------------------------------- PathBuilder
\* A path of the output tree is the sequence of its components below
\* base_output_dir; <<>> is base_output_dir itself.

\* Path.parent
Parent(path) == SubSeq(path, 1, Len(path) - 1)

\* the directories Path.mkdir(parents=True) has to find or make for `dir`
Ancestors(dir) == {SubSeq(dir, 1, n) : n \in 0..Len(dir)}

\* Path.mkdir(parents=True, exist_ok=True) raises when a file is in the way
MkdirRaises(dir, files) == Ancestors(dir) \cap files # {}

\* Path.mkdir(parents=True, exist_ok=True): the directories afterwards
Mkdir(dir, dirs) == dirs \cup Ancestors(dir)

\* PathBuilder._clean_path_component
PathBuilder_clean_path_component(component) ==
    IF component = <<>> THEN S_underscore
    ELSE LET cleaned == SelectSeq(component, LAMBDA c :
                            c \notin {"<", ">", ":", "\"", "/", "\\", "|", "?", "*",
                                      "\t", "\n", "\r", "\f"})
             trimmed == Strip(cleaned, {" ", "."})
         IN  IF trimmed = <<>> THEN S_underscore ELSE trimmed

\* f"{path.stem} ({counter}){path.suffix}" in path.parent
WithCounter(path, counter) ==
    LET name == path[Len(path)]
    IN  Parent(path) \o <<PathStem(name) \o <<" ","(">> \o IntToStr(counter) \o <<")">>
                              \o PathSuffix(name)>>

\* the while loop of PathBuilder._handle_collision
RECURSIVE CollisionLoop(_, _, _)
CollisionLoop(path, counter, existing) ==
    IF WithCounter(path, counter) \notin existing
    THEN WithCounter(path, counter)
    ELSE CollisionLoop(path, counter + 1, existing)

\* _handle_collision with the counter started at 2
HandleCollisionFromTwo(path, existing) ==
    IF path \notin existing THEN path ELSE CollisionLoop(path, 2, existing)

\* _handle_collision without the existence checks
HandleCollisionUnchecked(path, existing) == path

\* PathBuilder._handle_collision; `existing` is what Path.exists() answers for
PathBuilder_handle_collision(path, existing) ==
    IF path \notin existing THEN path ELSE CollisionLoop(path, 1, existing)

\* the extensions build_path accepts on a cleaned filename
BuildPathExtensions == {Ext_pdf, Ext_docx, Ext_pptx, Ext_jpg, Ext_jpeg, Ext_png}

\* lines 81-97 of build_path: base_output_dir.joinpath(*path_parts, filename)
PathBuilder_compose(text_data) ==
    LET group_path == Get(text_data, "group_path", <<>>)
        new_name   == Get(text_data, "new_name", S_unnamed_document)
        parts      == SelectSeq(Split(group_path, "/"),
                                LAMBDA p : Strip(p, Whitespace) # <<>>)
        path_parts == [i \in DOMAIN parts |-> PathBuilder_clean_path_component(parts[i])]
        cleaned    == PathBuilder_clean_path_component(new_name)
        suffix     == PathSuffix(Get(text_data, "file_path", <<>>))
        filename   == IF \E ext \in BuildPathExtensions : EndsWith(Lower(cleaned), ext)
                      THEN cleaned
                      ELSE IF suffix # <<>> THEN cleaned \o Lower(suffix)
                      ELSE cleaned \o Ext_txt
    IN  path_parts \o <<filename>>

\* build_path that reserves final_path by creating it as a directory
BuildPathReservesPath(text_data, files, dirs) ==
    IF ~Get(text_data, "success", FALSE)
    THEN [text_data |-> text_data, dirs |-> dirs]
    ELSE IF Get(text_data, "group_path", <<>>) = <<>>
             \/ Get(text_data, "new_name", S_unnamed_document) = <<>>
    THEN [text_data |-> Update(text_data,
              ("error" :> "Path building failed: Missing required path components")
                  @@ ("success" :> FALSE)),
          dirs |-> dirs]
    ELSE LET final_path == PathBuilder_handle_collision(
                               PathBuilder_compose(text_data), files \cup dirs)
         IN  IF MkdirRaises(Parent(final_path), files)
             THEN [text_data |-> Update(text_data,
                       ("error" :> "Path building failed: {OSError of mkdir}")
                           @@ ("success" :> FALSE)),
                   dirs |-> dirs]
             ELSE [text_data |-> Update(text_data, "final_path" :> final_path),
                   dirs |-> Mkdir(final_path, dirs)]

\* PathBuilder.build_path on the output tree (files, dirs):
\* the dict it returns and the directories afterwards
PathBuilder_build_path(text_data, files, dirs) ==
    IF ~Get(text_data, "success", FALSE)
    THEN [text_data |-> text_data, dirs |-> dirs]
    ELSE IF Get(text_data, "group_path", <<>>) = <<>>
             \/ Get(text_data, "new_name", S_unnamed_document) = <<>>
    THEN [text_data |-> Update(text_data,
              ("error" :> "Path building failed: Missing required path components")
                  @@ ("success" :> FALSE)),
          dirs |-> dirs]
    ELSE LET final_path == PathBuilder_handle_collision(
                               PathBuilder_compose(text_data), files \cup dirs)
         IN  IF MkdirRaises(Parent(final_path), files)
             THEN [text_data |-> Update(text_data,
                       ("error" :> "Path building failed: {OSError of mkdir}")
                           @@ ("success" :> FALSE)),
                   dirs |-> dirs]
             ELSE [text_data |-> Update(text_data, "final_path" :> final_path),
                   dirs |-> Mkdir(Parent(final_path), dirs)]

\* ------------------------------------------------------------------- FileMover
\* FileMover.__init__: self.copy_instead_of_move
VARIABLE copy_instead_of_move

\* What the operating system does with shutil.move / shutil.copy2
OsOutcomes == {"ok", "OSError"}

\* where shutil.move and shutil.copy2 put the file: inside `destination` when
\* that is a directory
RealDestination(source, destination, dirs) ==
    IF destination \in dirs
    THEN destination \o <<PathName(source)>>
    ELSE destination

\* _move_file whose failed attempt has already removed the source
MoveFailureLosesSource(source, destination, present, files, dirs, os) ==
    LET real_dst == RealDestination(source, destination, dirs)
        refused  == Parent(destination) \notin dirs
    IN  IF os = "ok" /\ ~refused
        THEN [ok      |-> TRUE,
              present |-> IF copy_instead_of_move THEN present ELSE present \ {source},
              files   |-> files \cup {real_dst}]
        ELSE [ok |-> FALSE, present |-> present \ {source}, files |-> files]

\* _move_file that moves whatever copy_instead_of_move says
MoveIgnoresCopyMode(source, destination, present, files, dirs, os) ==
    LET real_dst == RealDestination(source, destination, dirs)
        refused  == Parent(destination) \notin dirs
    IN  IF os = "ok" /\ ~refused
        THEN [ok |-> TRUE, present |-> present \ {source},
              files |-> files \cup {real_dst}]
        ELSE [ok |-> FALSE, present |-> present, files |-> files]

\* FileMover._move_file: [ok, present, files] after the attempt
FileMover_move(source, destination, present, files, dirs, os) ==
    LET real_dst == RealDestination(source, destination, dirs)
        refused  == \/ Parent(destination) \notin dirs
                    \/ /\ real_dst # destination
                       /\ \/ real_dst \in dirs
                          \/ ~copy_instead_of_move /\ real_dst \in files
    IN  IF os = "ok" /\ ~refused
        THEN [ok      |-> TRUE,
              present |-> IF copy_instead_of_move THEN present ELSE present \ {source},
              files   |-> files \cup {real_dst}]
        ELSE [ok      |-> FALSE,
              present |-> present,
              files   |-> IF os = "OSError, destination written" /\ ~refused
                          THEN files \cup {real_dst}
                          ELSE files]

\* move_file that removes the destination's directory when the move failed
MoveFileRollsBack(text_data, present, files, dirs, os) ==
    IF ~Get(text_data, "success", FALSE)
    THEN [text_data |-> text_data, present |-> present, files |-> files, dirs |-> dirs]
    ELSE LET source      == Get(text_data, "source", <<>>)
             destination == Get(text_data, "destination", <<>>)
             moved       == FileMover_move(source, destination, present, files, dirs, os)
         IN  IF source \in present /\ moved.ok
             THEN [text_data |-> Update(text_data,
                       ("success" :> TRUE) @@ ("moved_to" :> destination)),
                   present |-> moved.present, files |-> moved.files, dirs |-> dirs]
             ELSE [text_data |-> Update(text_data, ("success" :> FALSE)
                       @@ ("error" :> "Failed to move/copy file: {source} -> {destination}")),
                   present |-> present, files |-> files,
                   dirs |-> dirs \ {Parent(destination)}]

\* FileMover.move_file on the input directory (present) and the output tree
FileMover_move_file(text_data, present, files, dirs, os) ==
    IF ~Get(text_data, "success", FALSE)
    THEN [text_data |-> text_data, present |-> present, files |-> files, dirs |-> dirs]
    ELSE LET source      == Get(text_data, "source", <<>>)
             destination == Get(text_data, "destination", <<>>)
             mkdir       == Parent(destination) \notin files \cup dirs
             dirs_after  == IF mkdir THEN Mkdir(Parent(destination), dirs) ELSE dirs
             moved       == FileMover_move(source, destination, present, files,
                                           dirs_after, os)
         IN  IF source \notin present
             THEN [text_data |-> Update(text_data, ("success" :> FALSE)
                       @@ ("error" :> "File movement failed: Source file not found: {source}")),
                   present |-> present, files |-> files, dirs |-> dirs]
             ELSE IF mkdir /\ MkdirRaises(Parent(destination), files)
             THEN [text_data |-> Update(text_data, ("success" :> FALSE)
                       @@ ("error" :> "File movement failed: {OSError of mkdir}")),
                   present |-> present, files |-> files, dirs |-> dirs]
             ELSE IF moved.ok
             THEN [text_data |-> Update(text_data,
                       IF copy_instead_of_move
                       THEN ("success" :> TRUE) @@ ("moved_to" :> destination)
                                @@ ("original_location" :> source)
                       ELSE ("success" :> TRUE) @@ ("moved_to" :> destination)),
                   present |-> moved.present, files |-> moved.files, dirs |-> dirs_after]
             ELSE [text_data |-> Update(text_data, ("success" :> FALSE)
                       @@ ("error" :> "Failed to move/copy file: {source} -> {destination}")),
                   present |-> moved.present, files |-> moved.files, dirs |-> dirs_after]

\* ------------------------------------------------------------------ ZipBuilder
\* create_zip with zip_path stored before _create_zip's answer is looked at
CreateZipPathFirst(text_data, dirs, zip_ok) ==
    IF ~Get(text_data, "success", FALSE) THEN text_data
    ELSE IF <<>> \notin dirs
    THEN Update(text_data, ("success" :> FALSE)
             @@ ("error" :> "ZIP creation failed: Organized directory not found: {organized_dir}"))
    ELSE IF zip_ok
    THEN Update(text_data, "zip_path" :> "output/{organized_dir.name}.zip")
    ELSE Update(text_data, ("success" :> FALSE)
             @@ ("zip_path" :> "output/{organized_dir.name}.zip")
             @@ ("error" :> "Failed to create ZIP archive: {zip_path}"))

\* ZipBuilder.create_zip; `zip_ok` is whether _create_zip could write the archive
ZipBuilder_create_zip(text_data, dirs, zip_ok) ==
    IF ~Get(text_data, "success", FALSE) THEN text_data
    ELSE IF <<>> \notin dirs
    THEN Update(text_data, ("success" :> FALSE)
             @@ ("error" :> "ZIP creation failed: Organized directory not found: {organized_dir}"))
    ELSE IF zip_ok
    THEN Update(text_data, "zip_path" :> "output/{organized_dir.name}.zip")
    ELSE Update(text_data, ("success" :> FALSE)
             @@ ("error" :> "Failed to create ZIP archive: {zip_path}"))

\* --------------------------------------------------- FileOrganizer: the state
VARIABLES
    entries,       \* input directory: the kind of each direct entry, in glob order
    present,       \* names of the input directory's files the loop has reached
                   \* and that are still there
    outFiles,      \* output tree: the paths that are files
    outDirs,       \* output tree: the paths that are directories
    results,       \* run: the results dict
    idx,           \* run: position of the for loop in files
    pc,            \* the statement run / process_file is at
    text_data,     \* process_file: the record of the file being processed
    zip_result,    \* run: what create_zip returned
    calls,         \* history: process_file invocations per entry
    registryKeys,  \* history: the keys get_extractor was called with
    zipCalls,      \* history: create_zip invocations
    resolved,      \* history: per final_path set, the path composed (want), the
                   \* final_path (got), and moved_to once the file was relocated
    overwrote,     \* history: a relocation wrote over a file of the output tree
    preexisting,   \* history: the output tree before the run
    given          \* history: what a client of the stage objects passed to them

vars == <<entries, present, outFiles, outDirs, results, idx, pc, text_data,
          zip_result, calls, registryKeys, zipCalls, resolved,
          overwrote, preexisting, given, copy_instead_of_move>>

\* --------------------------------------------------------- the environment
\* the input directory's listings: each direct entry is a file or a directory
Listings == UNION {[1..n -> {"file", "dir"}] : n \in 0..MaxEntries}

\* the extensions an input file may have
InputExtensions == {Ext_pdf, Ext_txt}

\* the name of the input directory's i-th entry
EntryName(i, ext) == <<"F"," ">> \o IntToStr(i) \o ext

\* output trees a run may start on. In the first, directory other/ holds a
\* directory and a numbered file under names the run will ask for, and nothing
\* is below other/business yet; in the second a plain file sits where the
\* directory other/ is wanted.
OutputTrees ==
    { [files |-> {<<S_other, <<"q","1","_","r","e","p","o","r","t"," ","(","2",")",".","p","d","f">>>>},
       dirs  |-> {<<>>, <<S_other>>, <<S_other, <<"q","1","_","r","e","p","o","r","t",".","p","d","f">>>>}],
      [files |-> {<<S_other>>}, dirs |-> {<<>>}] }

\* replies of the labeler's three chains
ClassifyReplies ==
    { [kind |-> "raise"],
      [kind |-> "dict", value |-> EmptyDict],
      [kind |-> "dict",
       value |-> ("category" :> S_Business)
                     @@ ("confidence" :> [numeric |-> TRUE, percent |-> 95])] }

GroupReplies ==
    { [kind |-> "raise"],
      [kind |-> "str", value |-> <<"B","u","s","i","n","e","s","s","/","Q","1"," ">>],
      [kind |-> "str", value |-> <<"O","t","h","e","r","/","b","u","s","i","n","e","s","s","/","q","1">>] }

RenameReplies ==
    { [kind |-> "raise"],
      [kind |-> "str", value |-> <<"Q","1"," ","R","e","p","o","r","t">>] }

\* ------------------------------------------------------ FileOrganizer.run
\* the listing without the is_file() filter
RunFilesUnfiltered(listing) == [i \in DOMAIN listing |-> i]

\* files = [f for f in self.input_dir.glob('*') if f.is_file()]
run_files(listing) ==
    SelectSeq([i \in DOMAIN listing |-> i], LAMBDA i : listing[i] = "file")

Init ==
    /\ entries \in Listings
    /\ present = {}
    /\ \E tree \in OutputTrees :
           /\ outFiles = tree.files
           /\ outDirs = tree.dirs
           /\ preexisting = tree.files \cup tree.dirs
    /\ results = EmptyDict
    /\ idx = 0
    /\ pc = "start"
    /\ text_data = EmptyDict
    /\ zip_result = EmptyDict
    /\ calls = [i \in DOMAIN entries |-> 0]
    /\ registryKeys = {}
    /\ zipCalls = 0
    /\ resolved = <<>>
    /\ overwrote = FALSE
    /\ given = EmptyDict
    /\ copy_instead_of_move = FALSE    \* main.py, line 46: FileMover()

\* run, lines 224-237: the results dict, the listing, the empty-directory return
RunStart ==
    /\ pc = "start"
    /\ results' = ("total_files" :> Len(run_files(entries))) @@ ("successful" :> 0)
                      @@ ("failed" :> 0) @@ ("errors" :> <<>>)
    /\ idx' = 1
    /\ pc' = IF run_files(entries) = <<>> THEN "done" ELSE "loop"
    /\ UNCHANGED <<entries, present, outFiles, outDirs, text_data, zip_result, calls,
                   registryKeys, zipCalls, resolved, overwrote, preexisting, given, copy_instead_of_move>>

\* run, lines 240-242, and process_file, lines 57-60: the loop takes the next
\* file and process_file starts its record
ProcessFile ==
    /\ pc = "loop"
    /\ idx <= Len(run_files(entries))
    /\ \E ext \in InputExtensions :
           LET file_path == EntryName(run_files(entries)[idx], ext)
           IN  /\ text_data' = ("file_path" :> file_path) @@ ("success" :> TRUE)
               /\ present' = present \cup {file_path}
    /\ calls' = [calls EXCEPT ![run_files(entries)[idx]] = @ + 1]
    /\ pc' = "plan"
    /\ UNCHANGED <<entries, outFiles, outDirs, results, idx, zip_result, registryKeys,
                   zipCalls, resolved, overwrote, preexisting, given, copy_instead_of_move>>

\* a stage whose result is not looked at
AfterStageNoReturn(td, next) == next

\* a failed stage sends the record through the chain again
AfterStageRetry(td, next) == IF td["success"] THEN next ELSE "plan"

\* `if not text_data['success']: return text_data` after a stage
AfterStage(td, next) == IF td["success"] THEN next ELSE "return"

\* an except clause that records no message
ExceptWithoutError(td, e) ==
    [text_data |-> Update(td, "success" :> FALSE), pc |-> "return"]

\* no except clause: the exception leaves process_file and run
ExceptPropagates(td, e) == [text_data |-> td, pc |-> "raised"]

\* process_file, lines 209-215: the except clause
process_file_except(td, e) ==
    [text_data |-> Update(td, ("success" :> FALSE) @@ ("error" :> e)),
     pc        |-> "return"]

\* process_file, lines 69-71
Plan ==
    /\ pc = "plan"
    /\ text_data' = Update(text_data, get_extraction_plan(text_data["file_path"]))
    /\ pc' = AfterStage(text_data', "detect")
    /\ UNCHANGED <<entries, present, outFiles, outDirs, results, idx, zip_result, calls,
                   registryKeys, zipCalls, resolved, overwrote, preexisting, given, copy_instead_of_move>>

\* process_file, lines 80-82
Detect ==
    /\ pc = "detect"
    /\ text_data' = Update(text_data, detect(text_data["file_path"], present))
    /\ pc' = AfterStage(text_data', "extract")
    /\ UNCHANGED <<entries, present, outFiles, outDirs, results, idx, zip_result, calls,
                   registryKeys, zipCalls, resolved, overwrote, preexisting, given, copy_instead_of_move>>

\* process_file, lines 94-97: the registry lookup, then extractor.extract; a
\* lookup that found nothing makes `extractor.extract` raise AttributeError
Extract ==
    /\ pc = "extract"
    /\ registryKeys' = registryKeys \cup {text_data["extraction_plan"]}
    /\ LET extractor == get_extractor(text_data["extraction_plan"])
       IN  IF extractor = None
           THEN LET handled == process_file_except(text_data,
                                   "'NoneType' object has no attribute 'extract'")
                IN  /\ text_data' = handled.text_data
                    /\ pc' = handled.pc
           ELSE \E backend \in Backend, ocr \in Backend :
                    /\ text_data' = Update(text_data,
                           extract(extractor, text_data["file_path"], backend, ocr))
                    /\ pc' = AfterStage(text_data', "clean")
    /\ UNCHANGED <<entries, present, outFiles, outDirs, results, idx, zip_result, calls,
                   zipCalls, resolved, overwrote, preexisting, given, copy_instead_of_move>>

\* process_file, lines 111-113
Clean ==
    /\ pc = "clean"
    /\ \E cleaned \in CleanedContents(Get(text_data, "content", "")) :
           text_data' = TextCleaner_clean(text_data, cleaned)
    /\ pc' = AfterStage(text_data', "metadata")
    /\ UNCHANGED <<entries, present, outFiles, outDirs, results, idx, zip_result, calls,
                   registryKeys, zipCalls, resolved, overwrote, preexisting, given, copy_instead_of_move>>

\* process_file, lines 123-125
Metadata ==
    /\ pc = "metadata"
    /\ text_data' = MetadataGenerator_generate(text_data)
    /\ pc' = AfterStage(text_data', "classify")
    /\ UNCHANGED <<entries, present, outFiles, outDirs, results, idx, zip_result, calls,
                   registryKeys, zipCalls, resolved, overwrote, preexisting, given, copy_instead_of_move>>

\* process_file, lines 142-144
Classify ==
    /\ pc = "classify"
    /\ \E reply \in ClassifyReplies :
           text_data' = ClassificationAgent_classify(text_data, reply)
    /\ pc' = AfterStage(text_data', "group")
    /\ UNCHANGED <<entries, present, outFiles, outDirs, results, idx, zip_result, calls,
                   registryKeys, zipCalls, resolved, overwrote, preexisting, given, copy_instead_of_move>>

\* process_file, lines 158-160
Group ==
    /\ pc = "group"
    /\ \E reply \in GroupReplies :
           text_data' = GroupingAgent_suggest_group_path(text_data, reply)
    /\ pc' = AfterStage(text_data', "rename")
    /\ UNCHANGED <<entries, present, outFiles, outDirs, results, idx, zip_result, calls,
                   registryKeys, zipCalls, resolved, overwrote, preexisting, given, copy_instead_of_move>>

\* process_file, lines 170-172
Rename ==
    /\ pc = "rename"
    /\ \E reply \in RenameReplies :
           text_data' = RenamingAgent_generate_filename(text_data, reply)
    /\ pc' = AfterStage(text_data', "build")
    /\ UNCHANGED <<entries, present, outFiles, outDirs, results, idx, zip_result, calls,
                   registryKeys, zipCalls, resolved, overwrote, preexisting, given, copy_instead_of_move>>

\* process_file, lines 182-184
BuildPath ==
    /\ pc = "build"
    /\ LET built == PathBuilder_build_path(text_data, outFiles, outDirs)
       IN  /\ text_data' = built.text_data
           /\ outDirs' = built.dirs
           /\ resolved' = IF built.text_data["success"]
                          THEN Append(resolved,
                                      [want     |-> PathBuilder_compose(text_data),
                                       got      |-> built.text_data["final_path"],
                                       moved    |-> FALSE,
                                       moved_to |-> <<>>])
                          ELSE resolved
    /\ pc' = AfterStage(text_data', "move")
    /\ UNCHANGED <<entries, present, outFiles, results, idx, zip_result, calls,
                   registryKeys, zipCalls, overwrote, preexisting, given, copy_instead_of_move>>

\* process_file, lines 194-200
MoveFile ==
    /\ pc = "move"
    /\ \E os \in OsOutcomes :
           LET td    == Update(text_data, ("source" :> text_data["file_path"])
                                   @@ ("destination" :> text_data["final_path"]))
               moved == FileMover_move_file(td, present, outFiles, outDirs, os)
           IN  /\ text_data' = moved.text_data
               /\ present' = moved.present
               /\ outFiles' = moved.files
               /\ outDirs' = moved.dirs
               /\ overwrote' = (overwrote
                                   \/ (moved.text_data["success"]
                                          /\ moved.files = outFiles))
               /\ resolved' = IF moved.text_data["success"]
                              THEN [resolved EXCEPT
                                       ![Len(resolved)].moved = TRUE,
                                       ![Len(resolved)].moved_to =
                                           moved.text_data["moved_to"]]
                              ELSE resolved
    /\ pc' = "return"
    /\ UNCHANGED <<entries, results, idx, zip_result, calls, registryKeys, zipCalls,
                   preexisting, given, copy_instead_of_move>>

\* run, lines 244-251: the returned record is counted; process_file's record
\* is not read again after this
Aggregate ==
    /\ pc = "return"
    /\ results' =
           IF text_data["success"]
           THEN [results EXCEPT !["successful"] = @ + 1]
           ELSE [results EXCEPT
                    !["failed"] = @ + 1,
                    !["errors"] = Append(@,
                        [name  |-> PathName(text_data["file_path"]),
                         error |-> Get(text_data, "error", "Unknown error")])]
    /\ idx' = idx + 1
    /\ text_data' = EmptyDict
    /\ pc' = "loop"
    /\ UNCHANGED <<entries, present, outFiles, outDirs, zip_result, calls,
                   registryKeys, zipCalls, resolved, overwrote, preexisting, given, copy_instead_of_move>>

\* run, line 240: the for loop is over
LoopExit ==
    /\ pc = "loop"
    /\ idx > Len(run_files(entries))
    /\ pc' = "archive"
    /\ UNCHANGED <<entries, present, outFiles, outDirs, results, idx, text_data,
                   zip_result, calls, registryKeys, zipCalls, resolved,
                   overwrote, preexisting, given, copy_instead_of_move>>

\* run, lines 259-267: create_zip is called and its zip_path is taken over
Archive ==
    /\ pc = "archive"
    /\ results["successful"] > 0
    /\ \E zip_ok \in BOOLEAN :
           /\ zip_result' = ZipBuilder_create_zip(
                                ("success" :> TRUE) @@ ("organized_dir" :> "output_dir"),
                                outDirs, zip_ok)
           /\ results' = IF "zip_path" \in DOMAIN zip_result'
                         THEN Update(results, "zip_path" :> zip_result'["zip_path"])
                         ELSE results
    /\ zipCalls' = zipCalls + 1
    /\ pc' = "done"
    /\ UNCHANGED <<entries, present, outFiles, outDirs, idx, text_data, calls,
                   registryKeys, resolved, overwrote, preexisting, given, copy_instead_of_move>>

\* the archive guarded by total_files instead of successful
ArchiveWithoutSuccess ==
    /\ pc = "archive"
    /\ ~(results["successful"] > 0)
    /\ zip_result' = ZipBuilder_create_zip(
                         ("success" :> TRUE) @@ ("organized_dir" :> "output_dir"),
                         outDirs, TRUE)
    /\ results' = Update(results, "zip_path" :> zip_result'["zip_path"])
    /\ zipCalls' = zipCalls + 1
    /\ pc' = "done"
    /\ UNCHANGED <<entries, present, outFiles, outDirs, idx, text_data, calls,
                   registryKeys, resolved, overwrote, preexisting, given, copy_instead_of_move>>

\* run, lines 259 and 269: nothing succeeded, so no archive
NoArchive ==
    /\ pc = "archive"
    /\ ~(results["successful"] > 0)
    /\ pc' = "done"
    /\ UNCHANGED <<entries, present, outFiles, outDirs, results, idx, text_data,
                   zip_result, calls, registryKeys, zipCalls, resolved,
                   overwrote, preexisting, given, copy_instead_of_move>>

Next ==
    \/ RunStart
    \/ ProcessFile
    \/ Plan
    \/ Detect
    \/ Extract
    \/ Clean
    \/ Metadata
    \/ Classify
    \/ Group
    \/ Rename
    \/ BuildPath
    \/ MoveFile
    \/ Aggregate
    \/ LoopExit
    \/ Archive
    \/ NoArchive

Spec == Init /\ [][Next]_vars

\* ======================================= the stage objects called directly
\* A client other than run holds one record and calls the stage objects on it
\* in the order of process_file; it may leave out the grouping or the renaming
\* call, and it may clean a text and clean the result again.

\* the keys of PreprocessingAgent.extraction_plans
SupportedExtensions ==
    {Ext_pdf, Ext_png, Ext_jpg, Ext_jpeg, Ext_docx, Ext_doc, Ext_ppt, Ext_pptx}

S_Invoices == <<"I","n","v","o","i","c","e","s">>

\* replies of the classification chain: it raises, classifies, names a category
\* outside self.categories with a confidence above 1, or names no category
StageClassifyReplies ==
    { [kind |-> "raise"],
      [kind |-> "dict",
       value |-> ("category" :> S_Business)
                     @@ ("confidence" :> [numeric |-> TRUE, percent |-> 95])],
      [kind |-> "dict",
       value |-> ("category" :> S_Invoices)
                     @@ ("confidence" :> [numeric |-> TRUE, percent |-> 150])],
      [kind |-> "dict",
       value |-> ("confidence" :> [numeric |-> TRUE, percent |-> 90])] }

\* replies of the grouping chain
StageGroupReplies ==
    { [kind |-> "raise"],
      [kind |-> "str", value |-> <<>>],
      [kind |-> "str", value |-> <<"B","u","s","i","n","e","s","s","/","F","i","n","a","n","c","e","/","R","e","p","o","r","t","s">>],
      [kind |-> "str", value |-> <<"F","i","n","a","n","c","e","/","R","e","p","o","r","t","s","/","Q","1","/","D","r","a","f","t">>],
      [kind |-> "str", value |-> <<"O","t","h","e","r","/","T","a","x"," ","D","o","c","s","!">>],
      [kind |-> "str", value |-> <<"!","!","/","?"," ","?">>] }

\* replies of the renaming chain
StageRenameReplies ==
    { [kind |-> "raise"],
      [kind |-> "str", value |-> <<"q","1"," ","r","e","p","o","r","t">>],
      [kind |-> "str", value |-> <<"Q","1","-","R","e","p","o","r","t">>],
      [kind |-> "str", value |-> <<"R","e","p","o","r","t",".","D","O","C">>],
      [kind |-> "str",
       value |-> <<"A","n","n","u","a","l"," ","F","i","n","a","n","c","i","a","l"," ","S","u","m","m","a","r","y"," ","A","n","d"," ","F","o","r","e","c","a","s","t"," ","F","o","r"," ","T","h","e"," ","B","o","a","r","d"," ","O","f"," ","D","i","r","e","c","t","o","r","s">>] }

\* output trees: an empty one, and one that holds what a first file with the
\* same labels has left
StageTrees ==
    { [files |-> {}, dirs |-> {<<>>}],
      [files |-> {<<S_other, <<"b","u","s","i","n","e","s","s">>, <<"f","i","n","a","n","c","e">>, <<"r","e","p","o","r","t","s">>, <<"q","1","_","r","e","p","o","r","t",".","d","o","c","x">>>>},
       dirs  |-> Ancestors(<<S_other, <<"b","u","s","i","n","e","s","s">>, <<"f","i","n","a","n","c","e">>, <<"r","e","p","o","r","t","s">>>>)] }

\* what the operating system does with shutil.move / shutil.copy2 for a
\* client: as OsOutcomes, or it fails after the destination was written
StageOsOutcomes == OsOutcomes \cup {"OSError, destination written"}

\* FileMover as constructed, and whether the source is still where it was
StageMoveSettings ==
    { [copy |-> FALSE, source_exists |-> TRUE],
      [copy |-> TRUE,  source_exists |-> TRUE],
      [copy |-> FALSE, source_exists |-> FALSE] }

\* largest length of the short texts given to TextCleaner.clean
MaxTextLen == 3

\* the characters of the short texts
TextAlphabet == {"A", "b", "1", " ", "\n"}

\* contents given to TextCleaner.clean: every short text, and four longer ones
Texts ==
    UNION {[1..n -> TextAlphabet] : n \in 0..MaxTextLen}
        \cup { <<"Q","u","a","r","t","e","r","l","y"," ","r","e","p","o","r","t">>,
               <<"r","e","p","o","r","t"," ","P","a","g","e"," ","2"," ","o","f"," ","9">>,
               <<"P","a","g","e","\n","A","\n","1"," ","x">>,
               <<"Q","u","a","r","t","e","r","l","y"," ","r","e","p","o","r","t">> \o <<"\n">> \o <<"P","a","g","e">> \o <<"\n">> \o <<"I","N","V","O","I","C","E">>
                   \o <<"\n">> \o <<"3"," ","o","f"," ","t","h","e"," ","y","e","a","r">> }

\* what the library calls of an extractor do for a client: as Backend, or they
\* return white space only
StageBackends == Backend \cup {[kind |-> "text", content |-> "blank"]}

\* n lines of the one character c, joined by newlines
LinesOf(c, n) == [i \in 1..(2 * n - 1) |-> IF i % 2 = 1 THEN c ELSE "\n"]

\* contents given to MetadataGenerator.generate: short ones, fifty lines with
\* and without a last newline, one line before fifty empty ones, and pages
\* separated by form feeds
MetadataTexts ==
    { <<>>,
      <<"a"," ","b">>,
      <<"a","\n"," ","\n","b">>,
      LinesOf("a", 50),
      LinesOf("a", 50) \o <<"\n">>,
      <<"a">> \o [i \in 1..50 |-> "\n"],
      <<"a","\f","b">>,
      <<"a","\f","b","\n","c","\f","d">> }

InitStages ==
    /\ entries = <<>>
    /\ results = EmptyDict
    /\ idx = 0
    /\ zip_result = EmptyDict
    /\ calls = <<>>
    /\ registryKeys = {}
    /\ zipCalls = 0
    /\ resolved = <<>>
    /\ overwrote = FALSE
    /\ given = EmptyDict
    /\ \/ /\ pc = "stage_clean"
          /\ \E content \in Texts :
                 text_data = ("content" :> content) @@ ("success" :> TRUE)
          /\ present = {}
          /\ outFiles = {} /\ outDirs = {<<>>} /\ preexisting = {<<>>}
          /\ copy_instead_of_move = FALSE
       \/ /\ pc = "stage_extract"
          /\ \E ext \in SupportedExtensions :
                 /\ text_data = ("file_path" :> EntryName(1, ext)) @@ ("success" :> TRUE)
                 /\ present = {EntryName(1, ext)}
          /\ outFiles = {} /\ outDirs = {<<>>} /\ preexisting = {<<>>}
          /\ copy_instead_of_move = FALSE
       \/ /\ pc = "stage_metadata"
          /\ \E content \in MetadataTexts :
                 text_data = ("content" :> content) @@ ("success" :> TRUE)
          /\ present = {}
          /\ outFiles = {} /\ outDirs = {<<>>} /\ preexisting = {<<>>}
          /\ copy_instead_of_move = FALSE
       \/ /\ pc = "stage_classify"
          /\ \E ext \in SupportedExtensions, tree \in StageTrees,
                 setting \in StageMoveSettings :
                 /\ text_data = ("file_path" :> EntryName(1, ext))
                                    @@ ("success" :> TRUE) @@ ("content" :> "text")
                 /\ present = IF setting.source_exists
                              THEN {EntryName(1, ext)} ELSE {}
                 /\ outFiles = tree.files
                 /\ outDirs = tree.dirs
                 /\ preexisting = tree.files \cup tree.dirs
                 /\ copy_instead_of_move = setting.copy

\* what no call of a stage object changes
StageFrame ==
    UNCHANGED <<entries, results, idx, zip_result, calls, registryKeys, zipCalls,
                resolved, overwrote, preexisting, copy_instead_of_move>>

\* the plan, the registry lookup and extractor.extract as in process_file,
\* lines 69 and 94-95
CallExtract ==
    /\ pc = "stage_extract"
    /\ LET planned   == Update(text_data, get_extraction_plan(text_data["file_path"]))
           extractor == get_extractor(planned["extraction_plan"])
       IN  \E backend \in StageBackends, ocr \in Backend :
               /\ text_data' = Update(planned, extract(extractor, planned["file_path"],
                                                       backend, ocr))
               /\ given' = Update(given, "extract" :> [backend |-> backend, ocr |-> ocr])
    /\ pc' = "stage_extracted"
    /\ UNCHANGED <<present, outFiles, outDirs>>
    /\ StageFrame

\* metadata_generator.generate(text_data)
CallMetadata ==
    /\ pc = "stage_metadata"
    /\ text_data' = MetadataGenerator_generate_text(text_data)
    /\ given' = Update(given, "content" :> text_data["content"])
    /\ pc' = "stage_metadata_done"
    /\ UNCHANGED <<present, outFiles, outDirs>>
    /\ StageFrame

\* text_cleaner.clean(text_data), on a text and on what it returned
CallClean ==
    /\ pc \in {"stage_clean", "stage_clean_again"}
    /\ text_data' = TextCleaner_clean_text(text_data)
    /\ given' = Update(given, "content" :> text_data["content"])
    /\ pc' = IF pc = "stage_clean" THEN "stage_clean_again" ELSE "stage_cleaned"
    /\ UNCHANGED <<present, outFiles, outDirs>>
    /\ StageFrame

\* classifier.classify(text_data)
CallClassify ==
    /\ pc = "stage_classify"
    /\ \E reply \in StageClassifyReplies :
           /\ text_data' = ClassificationAgent_classify(text_data, reply)
           /\ given' = Update(given, "classify" :> reply)
    /\ pc' = "stage_group"
    /\ UNCHANGED <<present, outFiles, outDirs>>
    /\ StageFrame

\* grouper.suggest_group_path(text_data)
CallGroup ==
    /\ pc = "stage_group"
    /\ \E reply \in StageGroupReplies :
           /\ text_data' = GroupingAgent_suggest_group_path(text_data, reply)
           /\ given' = Update(given, "group" :> reply)
    /\ pc' = "stage_rename"
    /\ UNCHANGED <<present, outFiles, outDirs>>
    /\ StageFrame

\* renamer.generate_filename(text_data)
CallRename ==
    /\ pc = "stage_rename"
    /\ \E reply \in StageRenameReplies :
           /\ text_data' = RenamingAgent_generate_filename(text_data, reply)
           /\ given' = Update(given, "rename" :> reply)
    /\ pc' = "stage_build"
    /\ UNCHANGED <<present, outFiles, outDirs>>
    /\ StageFrame

\* the client leaves out the grouping or the renaming call
SkipCall ==
    /\ pc \in {"stage_group", "stage_rename"}
    /\ pc' = IF pc = "stage_group" THEN "stage_rename" ELSE "stage_build"
    /\ UNCHANGED <<text_data, given, present, outFiles, outDirs>>
    /\ StageFrame

\* path_builder.build_path(text_data)
CallBuildPath ==
    /\ pc = "stage_build"
    /\ LET built == PathBuilder_build_path(text_data, outFiles, outDirs)
       IN  /\ text_data' = built.text_data
           /\ outDirs' = built.dirs
    /\ given' = Update(given, "build_path" :> text_data)
    /\ pc' = "stage_move"
    /\ UNCHANGED <<present, outFiles>>
    /\ StageFrame

\* source and destination set as in process_file, lines 194-197, and
\* file_mover.move_file(text_data)
CallMoveFile ==
    /\ pc = "stage_move"
    /\ text_data["success"]
    /\ \E os \in StageOsOutcomes :
           LET moved == FileMover_move_file(
                            Update(text_data,
                                   ("source" :> text_data["file_path"])
                                       @@ ("destination" :> text_data["final_path"])),
                            present, outFiles, outDirs, os)
           IN  /\ text_data' = moved.text_data
               /\ present' = moved.present
               /\ outFiles' = moved.files
               /\ outDirs' = moved.dirs
    /\ given' = Update(given, "move_file" :> [text_data |-> text_data,
                                              present |-> present])
    /\ pc' = "stage_done"
    /\ StageFrame

NextStages ==
    \/ CallExtract
    \/ CallClean
    \/ CallMetadata
    \/ CallClassify
    \/ CallGroup
    \/ CallRename
    \/ SkipCall
    \/ CallBuildPath
    \/ CallMoveFile

SpecStages == InitStages /\ [][NextStages]_vars

\* ================================================================ properties

\* the indices of the listing's file entries
FileEntries == {i \in DOMAIN entries : entries[i] = "file"}

\* the k-th candidate of _handle_collision for a composed path: the path itself,
\* then 'stem (1).ext', 'stem (2).ext', ...
Candidate(path, k) == IF k = 0 THEN path ELSE WithCounter(path, k)

\* a record of process_file is live (between its creation and its aggregation)
InProcessFile == text_data # EmptyDict

\* ------------------------------------------------------------------------ C1
\* C1: build_path returns the composed path when nothing exists there, else
\* 'stem (k).ext' for the smallest k >= 1 at which nothing exists; so, when the
\* output tree held none of these names before the run and every file that
\* resolved to one composed path was relocated before the next was resolved,
\* the first keeps the name, the second gets '(1)', the third '(2)'.
C1_CollisionResolution ==
    /\ pc = "move" =>
           LET r        == resolved[Len(resolved)]
               existing == outFiles \cup outDirs
           IN  /\ text_data["final_path"] = r.got
               /\ \E k \in 0..Cardinality(existing) :
                      /\ r.got = Candidate(r.want, k)
                      /\ r.got \notin existing
                      /\ \A j \in 0..(k - 1) : Candidate(r.want, j) \in existing
    /\ \A i \in DOMAIN resolved :
           LET want    == resolved[i].want
               earlier == {j \in 1..(i - 1) : resolved[j].want = want}
           IN  ( /\ \A j \in earlier : resolved[j].moved
                 /\ \A k \in 0..Len(resolved) : Candidate(want, k) \notin preexisting )
               => resolved[i].got = Candidate(want, Cardinality(earlier))

\* three files of one batch resolved to one composed path, free before the run,
\* and each was relocated: they got the name, '(1)' and '(2)'
C1_Witness ==
    /\ Len(resolved) = 3
    /\ \A i \in 1..3 : resolved[i].want = resolved[1].want /\ resolved[i].moved
    /\ \A k \in 0..3 : Candidate(resolved[1].want, k) \notin preexisting
    /\ resolved[1].got = resolved[1].want
    /\ resolved[2].got = WithCounter(resolved[1].want, 1)
    /\ resolved[3].got = WithCounter(resolved[1].want, 2)

\* ------------------------------------------------------------------------ C2
\* C2: when build_path has set final_path nothing exists there, and nothing
\* does until the record's move_file runs; no relocation writes over a file of
\* the output tree, and the moved_to of the relocated records differ pairwise.
C2_FinalPathFree ==
    /\ pc = "move" => text_data["final_path"] \notin outFiles \cup outDirs
    /\ ~overwrote
    /\ \A i, j \in DOMAIN resolved :
           (i # j /\ resolved[i].moved /\ resolved[j].moved)
               => resolved[i].moved_to # resolved[j].moved_to
    /\ \A i \in DOMAIN resolved :
           resolved[i].moved =>
               resolved[i].moved_to = resolved[i].got /\ resolved[i].moved_to \in outFiles

\* two records asked for a path that the output tree already held as a
\* directory; both were relocated, to different places
C2_Witness ==
    /\ Len(resolved) >= 2
    /\ resolved[1].want = resolved[2].want
    /\ resolved[1].want \in preexisting
    /\ resolved[1].moved /\ resolved[2].moved
    /\ pc = "return" /\ text_data["success"]

\* ------------------------------------------------------------------------ C3
\* a record as a stage would receive it after an earlier failure
Failed(td) == Update(td, ("success" :> FALSE) @@ ("error" :> "earlier failure"))

\* every stage returns a failed record, and the state it works on, unchanged
StagesKeepFailedRecord ==
    InProcessFile =>
        LET td == Failed(text_data)
        IN  /\ \A cleaned \in {"", "clean-text"} : TextCleaner_clean(td, cleaned) = td
            /\ MetadataGenerator_generate(td) = td
            /\ \A reply \in ClassifyReplies : ClassificationAgent_classify(td, reply) = td
            /\ \A reply \in GroupReplies : GroupingAgent_suggest_group_path(td, reply) = td
            /\ \A reply \in RenameReplies : RenamingAgent_generate_filename(td, reply) = td
            /\ PathBuilder_build_path(td, outFiles, outDirs)
                   = [text_data |-> td, dirs |-> outDirs]
            /\ \A os \in OsOutcomes :
                   FileMover_move_file(td, present, outFiles, outDirs, os)
                       = [text_data |-> td, present |-> present,
                          files |-> outFiles, dirs |-> outDirs]

\* C3: a stage called with a record whose success is false returns it
\* unchanged; in process_file a record whose success is false is at the return
\* statement, no step changes it before it is returned, and no step sets
\* success back to true.
C3_FailureShortCircuits ==
    [][ /\ StagesKeepFailedRecord
        /\ (InProcessFile /\ ~text_data["success"]) =>
               /\ pc = "return"
               /\ (text_data' = text_data \/ text_data' = EmptyDict)
               /\ outFiles' = outFiles /\ outDirs' = outDirs /\ present' = present ]_vars

\* a record failed in build_path, after six stages succeeded, and is returned
C3_Witness ==
    /\ pc = "return"
    /\ ~text_data["success"]
    /\ "new_name" \in DOMAIN text_data
    /\ "final_path" \notin DOMAIN text_data

\* ------------------------------------------------------------------------ C4
\* C4: a record of process_file has success false exactly when it holds an
\* error, and the error is a non-empty string, at whatever stage it stopped.
C4_ErrorIffFailed ==
    InProcessFile =>
        /\ text_data["success"] = FALSE <=> "error" \in DOMAIN text_data
        /\ "error" \in DOMAIN text_data => text_data["error"] # ""

\* a record is returned that failed in the except clause of process_file
C4_Witness ==
    /\ pc = "return"
    /\ ~text_data["success"]
    /\ "content" \notin DOMAIN text_data
    /\ text_data["error"] = "'NoneType' object has no attribute 'extract'"

\* ------------------------------------------------------------------------ C5
\* C5: no exception leaves process_file; run calls process_file at most once
\* per entry, never for a directory, and by the end of the loop exactly once
\* for every file entry, the ones after a failed file included.
C5_BatchNeverAborts ==
    /\ pc # "raised"
    /\ \A i \in DOMAIN entries :
           /\ calls[i] <= 1
           /\ entries[i] = "dir" => calls[i] = 0
           /\ (pc \in {"archive", "done"} /\ entries[i] = "file") => calls[i] = 1
    /\ (pc \notin {"start", "archive", "done"} /\ InProcessFile) =>
           LET files == run_files(entries)
           IN  \A k \in 1..Len(files) : calls[files[k]] = IF k <= idx THEN 1 ELSE 0

\* the run is over; its first file failed in the except clause and a later file
\* was processed successfully
C5_Witness ==
    /\ pc = "done"
    /\ Len(run_files(entries)) >= 2
    /\ results["failed"] >= 1
    /\ results["errors"][1].name = EntryName(run_files(entries)[1], Ext_txt)
    /\ results["successful"] >= 1

\* ------------------------------------------------------------------------ C6
\* C6: total_files is the number of direct file entries; successful + failed is
\* the number of files processed so far, and total_files when run returns; the
\* errors list holds one message per failed file.
C6_StatisticsConsistent ==
    results # EmptyDict =>
        /\ results["total_files"] = Cardinality(FileEntries)
        /\ results["successful"] + results["failed"] = idx - 1
        /\ Len(results["errors"]) = results["failed"]
        /\ pc = "done" =>
               results["successful"] + results["failed"] = results["total_files"]

\* run returned for a directory with a subdirectory, a failed and a successful file
C6_Witness ==
    /\ pc = "done"
    /\ \E i \in DOMAIN entries : entries[i] = "dir"
    /\ results["failed"] >= 1
    /\ results["successful"] >= 1

\* ------------------------------------------------------------------------ C7
\* C7: create_zip is called at most once per run, only after the loop has taken
\* every file through process_file, and exactly when a file was successful.
C7_ArchiveOnceAfterBatch ==
    /\ zipCalls <= 1
    /\ pc # "done" => zipCalls = 0
    /\ zipCalls = 1 =>
           /\ results["successful"] > 0
           /\ idx = Len(run_files(entries)) + 1
           /\ \A i \in FileEntries : calls[i] = 1
    /\ pc = "done" => (zipCalls = 1 <=> results["successful"] > 0)

\* run returned after one archive, for a batch with a failed file
C7_Witness ==
    /\ pc = "done"
    /\ zipCalls = 1
    /\ results["failed"] >= 1

\* run returned without an archive, every file having failed
C7_WitnessNoArchive ==
    /\ pc = "done"
    /\ zipCalls = 0
    /\ results["failed"] >= 1

\* ------------------------------------------------------------------------ C8
\* C8: the archive step leaves the counts, the errors list and both directory
\* trees as they are, every relocated file stays at its moved_to, and a failed
\* create_zip leaves the run result without zip_path.
C8_ArchiveFailureBatchLevel ==
    [][ pc = "archive" =>
            /\ results'["successful"] = results["successful"]
            /\ results'["failed"] = results["failed"]
            /\ results'["errors"] = results["errors"]
            /\ results'["total_files"] = results["total_files"]
            /\ outFiles' = outFiles /\ outDirs' = outDirs /\ present' = present
            /\ \A i \in DOMAIN resolved :
                   resolved[i].moved => resolved[i].moved_to \in outFiles'
            /\ (zip_result' # EmptyDict /\ ~zip_result'["success"]) =>
                   "zip_path" \notin DOMAIN results' ]_vars

\* create_zip failed after a file was relocated: the run has no zip_path
C8_Witness ==
    /\ pc = "done"
    /\ zip_result # EmptyDict
    /\ ~zip_result["success"]
    /\ results["successful"] >= 1
    /\ "zip_path" \notin DOMAIN results
    /\ \E i \in DOMAIN resolved : resolved[i].moved

\* ------------------------------------------------------------------------ C9
\* C9: a file with an unknown extension gets extraction_plan None and its
\* record is failed before the extraction step: get_extractor is never called
\* with None.
C9_NoLookupWithoutPlan ==
    /\ None \notin registryKeys
    /\ (pc = "extract" /\ InProcessFile) => text_data["extraction_plan"] # None

\* ----------------------------------------------------------------------- C10
\* C10: the first component of group_path is the sanitized category that
\* classify assigned to the record.
C10_GroupPathStartsWithCategory ==
    (InProcessFile /\ "group_path" \in DOMAIN text_data) =>
        Split(text_data["group_path"], "/")[1]
            = GroupingAgent_clean_path_component(text_data["category"])

\* ----------------------------------------------------------------------- C11
\* C11: a group path set by suggest_group_path never has more components than
\* max_depth, whatever the grouping chain suggested.
C11_GroupPathWithinMaxDepth ==
    (InProcessFile /\ "group_path" \in DOMAIN text_data) =>
        Len(Split(text_data["group_path"], "/")) <= max_depth

\* ----------------------------------------------------------------------- C12
\* the placement the labels 'Business', 'Business/Finance/Reports' and
\* 'q1 report' are to give a .docx file
PlacementOfQ1Report == <<<<"b","u","s","i","n","e","s","s">>, <<"f","i","n","a","n","c","e">>, <<"r","e","p","o","r","t","s">>, <<"q","1","_","r","e","p","o","r","t",".","d","o","c","x">>>>

\* C12: a .docx file classified 'Business' with the suggested path
\* 'Business/Finance/Reports' and the suggested name 'q1 report' gets the
\* final_path business/finance/reports/q1_report.docx below the output root,
\* and .../q1_report (1).docx when a first file with these labels was placed.
C12_EndToEndPlacement ==
    ( /\ pc = "stage_move"
      /\ PathSuffix(text_data["file_path"]) = Ext_docx
      /\ DOMAIN given = {"classify", "group", "rename", "build_path"}
      /\ given["classify"].kind = "dict"
      /\ Get(given["classify"].value, "category", <<>>) = S_Business
      /\ given["group"].kind = "str"
      /\ given["group"].value = <<"B","u","s","i","n","e","s","s","/","F","i","n","a","n","c","e","/","R","e","p","o","r","t","s">>
      /\ given["rename"].kind = "str"
      /\ given["rename"].value = <<"q","1"," ","r","e","p","o","r","t">> )
    => /\ text_data["success"]
       /\ text_data["final_path"]
              = IF preexisting = {<<>>}
                THEN PlacementOfQ1Report
                ELSE WithCounter(PlacementOfQ1Report, 1)

\* ----------------------------------------------------------------------- C13
\* C13: the filename of final_path ends with the original file's extension
\* exactly once, for each of the eight supported extensions.
C13_ExtensionExactlyOnce ==
    ( /\ pc = "stage_move"
      /\ text_data["success"]
      /\ "new_name" \in DOMAIN text_data )
    => LET ext  == Lower(PathSuffix(text_data["file_path"]))
           name == text_data["final_path"][Len(text_data["final_path"])]
       IN  /\ EndsWith(name, ext)
           /\ ~EndsWith(SubSeq(name, 1, Len(name) - Len(ext)), ext)

\* ----------------------------------------------------------------------- C14
\* C14: the filename build_path assembles, before any collision counter, is
\* at most max_filename_length characters long, extension included, and ends
\* with the original file's extension.
C14_FilenameWithinLength ==
    ( /\ pc = "stage_move"
      /\ text_data["success"]
      /\ "new_name" \in DOMAIN text_data )
    => LET ext      == Lower(PathSuffix(text_data["file_path"]))
           composed == PathBuilder_compose(given["build_path"])
           name     == composed[Len(composed)]
       IN  /\ Len(name) <= max_filename_length
           /\ EndsWith(name, ext)

\* ----------------------------------------------------------------------- C15
\* a sanitized component: one or more of a-z, 0-9 and '_'
IsSanitized(component) == component # <<>> /\ Range(component) \subseteq WordSet

\* C15: every component of the group path, and the stem of the new name, is
\* made of lowercase letters, digits and underscores only.
C15_ComponentsSanitized ==
    /\ (InProcessFile /\ "group_path" \in DOMAIN text_data) =>
           \A i \in DOMAIN Split(text_data["group_path"], "/") :
               IsSanitized(Split(text_data["group_path"], "/")[i])
    /\ (InProcessFile /\ "new_name" \in DOMAIN text_data) =>
           IsSanitized(PathStem(text_data["new_name"]))

\* ----------------------------------------------------------------------- C16
\* C16: build_path called on a successful record that has no group_path or no
\* new_name (no such key, or an empty value) returns it with success false
\* and an error, and without final_path.
C16_MissingInputFailsBuildPath ==
    ( /\ pc = "stage_move"
      /\ given["build_path"]["success"]
      /\ \/ Get(given["build_path"], "group_path", <<>>) = <<>>
         \/ Get(given["build_path"], "new_name", <<>>) = <<>> )
    => /\ ~text_data["success"]
       /\ "error" \in DOMAIN text_data
       /\ text_data["error"] # ""
       /\ "final_path" \notin DOMAIN text_data

\* ----------------------------------------------------------------------- C17
\* the reply of the classification chain names a category of self.categories
NamesCategory(reply) ==
    /\ reply.kind = "dict"
    /\ "category" \in DOMAIN reply.value
    /\ reply.value["category"] \in categories

\* C17: classify leaves success true; after it the category is one of
\* self.categories and the confidence is a number from 0 to 1; when the chain
\* raised or named no category of self.categories, the record has 'Other'
\* and 0.5.
C17_ClassificationClosed ==
    pc = "stage_group" =>
        /\ text_data["success"]
        /\ text_data["category"] \in categories
        /\ text_data["confidence"].numeric
        /\ text_data["confidence"].percent \in 0..100
        /\ ~NamesCategory(given["classify"]) =>
               /\ text_data["category"] = S_Other
               /\ text_data["confidence"].percent = 50

\* ----------------------------------------------------------------------- C18
\* C18: when move_file fails, because the source is missing or because the
\* move or copy failed, the record has success false and an error, moved_to is
\* not set, and the input directory holds what it held before the call.
C18_MoveFailureKeepsSource ==
    (pc = "stage_done" /\ ~text_data["success"]) =>
        /\ "error" \in DOMAIN text_data
        /\ text_data["error"] # ""
        /\ "moved_to" \notin DOMAIN text_data
        /\ present = given["move_file"].present
        /\ given["move_file"].text_data["success"]

\* move_file failed although the source existed, the destination having been
\* written: the source is still there
C18_Witness ==
    /\ pc = "stage_done"
    /\ ~text_data["success"]
    /\ text_data["file_path"] \in present
    /\ text_data["final_path"] \in outFiles
    /\ ~copy_instead_of_move

\* move_file failed because the source was missing
C18_WitnessSourceMissing ==
    /\ pc = "stage_done"
    /\ ~text_data["success"]
    /\ given["move_file"].present = {}
    /\ text_data["error"] = "File movement failed: Source file not found: {source}"

\* ----------------------------------------------------------------------- C19
\* C19: after a successful move_file, moved_to is the destination, which is
\* final_path, and a file is there; when moving the source is gone, when
\* copying the source is still there and original_location names it. So a
\* record process_file returns with success true has moved_to = final_path.
C19_MovedToIsFinalPath ==
    /\ (pc = "stage_done" /\ text_data["success"]) =>
           /\ text_data["moved_to"] = text_data["destination"]
           /\ text_data["moved_to"] = text_data["final_path"]
           /\ text_data["moved_to"] \in outFiles
           /\ text_data["file_path"] \in given["move_file"].present
           /\ IF copy_instead_of_move
              THEN /\ text_data["file_path"] \in present
                   /\ text_data["original_location"] = text_data["file_path"]
              ELSE /\ text_data["file_path"] \notin present
                   /\ "original_location" \notin DOMAIN text_data
    /\ (pc = "return" /\ text_data["success"]) =>
           /\ text_data["moved_to"] = text_data["final_path"]
           /\ text_data["moved_to"] \in outFiles
           /\ text_data["file_path"] \notin present

\* move_file succeeded in copy mode: the file is at moved_to and at its source
C19_Witness ==
    /\ pc = "stage_done"
    /\ text_data["success"]
    /\ copy_instead_of_move
    /\ text_data["file_path"] \in present
    /\ text_data["moved_to"] \in outFiles

\* move_file succeeded in move mode
C19_WitnessMove ==
    /\ pc = "stage_done"
    /\ text_data["success"]
    /\ ~copy_instead_of_move
    /\ text_data["moved_to"] \in outFiles

\* ----------------------------------------------------------------------- C20
\* C20: cleaning what clean returned gives the same content again.
C20_CleanIdempotent ==
    pc = "stage_cleaned" => text_data["content"] = given["content"]

\* ----------------------------------------------------------------------- C21
\* error messages of an unavailable backend
ImportErrors ==
    { "Install PyMuPDF: pip install PyMuPDF",
      "Install python-docx: pip install python-docx",
      "Install python-pptx: pip install python-pptx",
      "Install pytesseract and Pillow: pip install pytesseract pillow",
      "Install pytesseract, Pillow, and pdf2image: pip install pytesseract pillow pdf2image" }

\* C21: for each of the eight supported extensions the record after extraction
\* has success true and a content (which may be empty) and no error, or
\* success false and a non-empty error; a .docx/.doc/.ppt/.pptx document
\* without text gives success true with empty content; a missing library,
\* of the extractor or of the OCR fallback it went to, gives a failure.
C21_ExtractionOutcome ==
    pc = "stage_extracted" =>
        LET backend == given["extract"].backend
            ocr     == given["extract"].ocr
            plan    == text_data["extraction_plan"]
        IN  /\ plan # None
            /\ "content" \in DOMAIN text_data
            /\ IF text_data["success"]
               THEN "error" \notin DOMAIN text_data
               ELSE "error" \in DOMAIN text_data /\ text_data["error"] # ""
            /\ (plan \in {"docx", "ppt"} /\ backend.kind = "text" /\ backend.content = "")
                   => text_data["success"] /\ text_data["content"] = ""
            /\ backend.kind = "ImportError"
                   => ~text_data["success"] /\ text_data["error"] \in ImportErrors
            /\ ( /\ plan = "pdf_text_then_ocr_if_needed"
                 /\ backend.kind = "text" /\ backend.content \in {"", "blank"}
                 /\ ocr.kind = "ImportError" )
                   => ~text_data["success"] /\ text_data["error"] \in ImportErrors

\* python-docx is missing for a .doc file: the record failed with the message
C21_Witness ==
    /\ pc = "stage_extracted"
    /\ PathSuffix(text_data["file_path"]) = Ext_doc
    /\ given["extract"].backend.kind = "ImportError"
    /\ ~text_data["success"]
    /\ text_data["error"] = "Install python-docx: pip install python-docx"

\* a .pptx file without text: success with empty content
C21_WitnessEmpty ==
    /\ pc = "stage_extracted"
    /\ PathSuffix(text_data["file_path"]) = Ext_pptx
    /\ given["extract"].backend = [kind |-> "text", content |-> ""]
    /\ text_data["success"]
    /\ text_data["content"] = ""

\* ----------------------------------------------------------------------- C22
\* C22: for a .pdf file the text layer is read first; the record is the OCR
\* fallback's exactly when the text layer was read and is empty after strip();
\* ocr_used is on the record, and true, exactly when the fallback ran and
\* succeeded, and a failure of the fallback fails the record.
C22_HybridPdf ==
    (pc = "stage_extracted" /\ text_data["extraction_plan"] = "pdf_text_then_ocr_if_needed") =>
        LET backend  == given["extract"].backend
            ocr      == given["extract"].ocr
            fallback == backend.kind = "text" /\ backend.content \in {"", "blank"}
        IN  /\ (backend.kind = "text" /\ ~fallback) =>
                   /\ text_data["success"]
                   /\ text_data["content"] = backend.content
            /\ backend.kind # "text" =>
                   /\ ~text_data["success"]
                   /\ text_data["error"] \in
                          { "Install PyMuPDF: pip install PyMuPDF",
                            "Error extracting text from PDF {file_path}: {e}" }
            /\ (fallback /\ ocr.kind = "text") =>
                   /\ text_data["success"]
                   /\ text_data["content"] = ocr.content
            /\ (fallback /\ ocr.kind # "text") =>
                   /\ ~text_data["success"]
                   /\ text_data["error"] \in
                          { "Install pytesseract, Pillow, and pdf2image: pip install pytesseract pillow pdf2image",
                            "Error during OCR processing of {file_path}: {e}" }
            /\ "ocr_used" \in DOMAIN text_data <=> (fallback /\ ocr.kind = "text")
            /\ "ocr_used" \in DOMAIN text_data => text_data["ocr_used"] = TRUE

\* the text layer of a .pdf held white space only and OCR gave text
C22_Witness ==
    /\ pc = "stage_extracted"
    /\ text_data["extraction_plan"] = "pdf_text_then_ocr_if_needed"
    /\ given["extract"].backend = [kind |-> "text", content |-> "blank"]
    /\ text_data["success"]
    /\ text_data["content"] = "text"
    /\ text_data["ocr_used"] = TRUE

\* the text layer of a .pdf was empty and the OCR fallback failed
C22_WitnessOcrFailed ==
    /\ pc = "stage_extracted"
    /\ text_data["extraction_plan"] = "pdf_text_then_ocr_if_needed"
    /\ given["extract"].backend = [kind |-> "text", content |-> ""]
    /\ given["extract"].ocr.kind = "Exception"
    /\ ~text_data["success"]

\* ----------------------------------------------------------------------- C23
\* C23: page_count is the number of form feeds of the content when there is
\* one, else line_count \div 50 + 1 for the line_count of the same metadata,
\* the number of lines that are not blank; page_count is at least 1.
C23_PageCount ==
    pc = "stage_metadata_done" =>
        LET metadata   == text_data["metadata"]
            form_feeds == Count(given["content"], "\f")
        IN  /\ metadata.page_count >= 1
            /\ metadata.page_count = IF form_feeds > 0 THEN form_feeds
                                     ELSE (metadata.line_count \div 50) + 1

\* ----------------------------------------------------------------------- C24
\* the stages of process_file, in the order of its statements
StageOrder == <<"plan", "detect", "extract", "clean", "metadata",
                "classify", "group", "rename", "build", "move">>

\* the place of a stage in StageOrder; 0 for a statement of run
StageRank(p) ==
    IF \E i \in DOMAIN StageOrder : StageOrder[i] = p
    THEN CHOOSE i \in DOMAIN StageOrder : StageOrder[i] = p
    ELSE 0

\* C24: a stage of process_file starts only from the stage just before it in
\* the order plan, detect-type, extract, normalize, derive-metadata, classify,
\* suggest-group-path, suggest-filename, resolve-path, relocate, and only
\* with success true on the record; the first starts from the loop of run,
\* once per file; a stage that ran is left, so none runs twice for a file.
C24_FixedStageOrder ==
    [][ /\ (pc' # pc /\ StageRank(pc') > 0) =>
               /\ StageRank(pc') = StageRank(pc) + 1
               /\ pc' = "plan" => pc = "loop"
               /\ text_data'["success"]
        /\ StageRank(pc) > 0 =>
               /\ text_data["success"]
               /\ pc' # pc
               /\ pc' = "return" \/ StageRank(pc') = StageRank(pc) + 1
        /\ \A i \in DOMAIN calls : calls'[i] <= 1 ]_vars

\* a record is at the last stage and holds what each earlier stage adds
C24_Witness ==
    /\ pc = "move"
    /\ {"extraction_plan", "file_type", "content", "metadata", "category",
        "group_path", "new_name", "final_path"} \subseteq DOMAIN text_data
    /\ text_data["success"]

\* ----------------------------------------------------------------------- C25
\* C25: build_path leaves nothing at the final_path it returns, so a second
\* build_path for the same group path and filename before the relocation
\* would return the same final_path; in run no record is resolved while an
\* earlier one waits for its relocation (every earlier resolved record was
\* counted as successful or failed), and two records share a final_path only
\* when the relocation of the first had failed.
C25_SequentialResolution ==
    /\ pc = "move" =>
           /\ text_data["final_path"] \notin outFiles \cup outDirs
           /\ PathBuilder_build_path(text_data, outFiles, outDirs).text_data["final_path"]
                  = text_data["final_path"]
    /\ pc \in {"build", "move"} =>
           LET earlier == IF pc = "move" THEN Len(resolved) - 1 ELSE Len(resolved)
           IN  /\ Cardinality({j \in 1..earlier : resolved[j].moved})
                      = results["successful"]
               /\ Cardinality({j \in 1..earlier : ~resolved[j].moved})
                      <= results["failed"]
    /\ \A i, j \in DOMAIN resolved :
           (i < j /\ resolved[i].got = resolved[j].got) => ~resolved[i].moved

\* the second of two records with one composed path is resolved after the
\* first was relocated, and gets another final_path
C25_Witness ==
    /\ pc = "move"
    /\ Len(resolved) = 2
    /\ resolved[1].want = resolved[2].want
    /\ resolved[1].moved
    /\ resolved[1].got # resolved[2].got

\* the relocation of the first record failed; the second got its final_path
C25_WitnessSamePath ==
    /\ pc = "move"
    /\ Len(resolved) = 2
    /\ resolved[1].got = resolved[2].got
    /\ ~resolved[1].moved
    /\ results["failed"] = 1

\* ----------------------------------------------------------------------- C26
\* the category suggest_group_path hands to _clean_path
CategoryOfGrouping ==
    Lower(Get(Get(text_data, "classification", EmptyDict), "category", S_other))

\* C26: _clean_path applied to the group path it returned, with the same
\* category, returns that group path.
C26_CleanPathIdempotent ==
    ( /\ pc = "stage_rename"
      /\ "group" \in DOMAIN given
      /\ given["group"].kind = "str" )
    => GroupingAgent_clean_path(text_data["group_path"], CategoryOfGrouping)
           = text_data["group_path"]

\* ----------------------------------------------------------------------- C27
\* sanitization drops every component of a suggested path
AllComponentsDropped(path) ==
    \A i \in DOMAIN Split(path, "/") :
        GroupingAgent_clean_path_component(Split(path, "/")[i]) = <<>>

\* C27: when the suggested path is empty or loses every component, the group
\* path is the record's sanitized category and nothing else: one component,
\* not empty.
C27_CategoryAloneWhenAllDropped ==
    ( /\ pc = "stage_rename"
      /\ "group" \in DOMAIN given
      /\ given["group"].kind = "str"
      /\ AllComponentsDropped(Strip(given["group"].value, Whitespace)) )
    => /\ text_data["group_path"]
              = GroupingAgent_clean_path_component(text_data["category"])
       /\ text_data["group_path"] # <<>>
       /\ "/" \notin Range(text_data["group_path"])

\* ----------------------------------------------------------------------- C28
\* C28: in move mode, after move_file was called for a file of the input
\* directory, the file is at one place only: at moved_to and no longer at its
\* source when the record succeeded, at its source and not at the destination
\* when the record failed.
C28_FilesConserved ==
    ( /\ pc = "stage_done"
      /\ ~copy_instead_of_move
      /\ text_data["file_path"] \in given["move_file"].present )
    => IF text_data["success"]
       THEN /\ text_data["moved_to"] \in outFiles
            /\ text_data["file_path"] \notin present
       ELSE /\ text_data["file_path"] \in present
            /\ text_data["destination"] \notin outFiles

\* ----------------------------------------------------------------------- C29
\* the stages of process_file before build_path
StagesBeforeBuild == {"plan", "detect", "extract", "clean", "metadata",
                      "classify", "group", "rename"}

\* C29: the stages before build_path change neither the output tree nor the
\* input directory, so a record that failed in one of them has its file at the
\* source; only build_path adds directories and only move_file adds files;
\* nothing is removed from the output tree, so the directories build_path
\* made are still there after a failed move_file.
C29_EarlyFailureLeavesTrees ==
    [][ /\ pc \in StagesBeforeBuild =>
               outFiles' = outFiles /\ outDirs' = outDirs /\ present' = present
        /\ ( /\ pc = "return"
             /\ ~text_data["success"]
             /\ "new_name" \notin DOMAIN text_data ) =>
               /\ text_data["file_path"] \in present
               /\ "final_path" \notin DOMAIN text_data
        /\ outDirs' # outDirs => pc = "build" /\ text_data'["success"]
        /\ outFiles' # outFiles => pc = "move"
        /\ outDirs \subseteq outDirs' /\ outFiles \subseteq outFiles'
        /\ (pc = "move" /\ ~text_data'["success"]) =>
               Ancestors(Parent(text_data["final_path"])) \subseteq outDirs' ]_vars

\* a record failed in move_file; the directory build_path made for it, which
\* the output tree did not hold before the run, is there
C29_Witness ==
    /\ pc = "return"
    /\ ~text_data["success"]
    /\ "final_path" \in DOMAIN text_data
    /\ Parent(text_data["final_path"]) \in outDirs
    /\ Parent(text_data["final_path"]) \notin preexisting

\* a record failed in extraction; the output tree is as before the run
C29_WitnessEarly ==
    /\ pc = "return"
    /\ ~text_data["success"]
    /\ "content" \in DOMAIN text_data
    /\ "metadata" \notin DOMAIN text_data
    /\ outFiles \cup outDirs = preexisting
    /\ text_data["file_path"] \in present

\* ----------------------------------------------------------------------- C30
\* C30: when the grouping chain raises, success stays true and group_path is
\* the record's sanitized category; when the renaming chain raises, success
\* stays true and new_name is the sanitized name of the file; a record that
\* went through classify, suggest_group_path and generate_filename reaches
\* build_path with success true and a non-empty group_path and new_name.
C30_LabelerFailuresNonFatal ==
    /\ ( /\ pc = "stage_rename"
         /\ "group" \in DOMAIN given
         /\ given["group"].kind = "raise" )
       => /\ text_data["success"]
          /\ text_data["group_path"]
                 = GroupingAgent_clean_path_component(text_data["category"])
    /\ ( /\ pc = "stage_build"
         /\ "rename" \in DOMAIN given
         /\ given["rename"].kind = "raise" )
       => /\ text_data["success"]
          /\ text_data["new_name"]
                 = RenamingAgent_clean_filename(PathName(text_data["file_path"]),
                                                Lower(PathSuffix(text_data["file_path"])))
    /\ (pc = "stage_build" /\ {"classify", "group", "rename"} \subseteq DOMAIN given)
       => /\ text_data["success"]
          /\ text_data["group_path"] # <<>>
          /\ text_data["new_name"] # <<>>

====
